---- MODULE Spec2Model ----
(***************************************************************************)
(* Model of gptcommit's summarization pipeline                             *)
(* (src/src/summarize.rs, src/src/prompt.rs).                              *)
(*                                                                         *)
(* Strings are sequences of one-character strings, so that substring       *)
(* search, lower-casing, trimming, line splitting and template             *)
(* substitution are computed rather than assumed.                          *)
(***************************************************************************)
EXTENDS Naturals, Sequences, FiniteSets, TLC

(***************************************************************************)
(* Bounds of the model.                                                    *)
(***************************************************************************)
\* longest file_diffs vector handed to get_commit_message
MaxFiles == 2
\* how many of the configured templates may be ones that fail to render
MaxBadTemplates == 1
\* longest text handed to the line-dedup check of SpecLines
MaxTextLen == 7

(***************************************************************************)
(* Result<T, E> and Option<T>.                                             *)
(***************************************************************************)
Ok(v) == [ok |-> TRUE, val |-> v, err |-> ""]
Err(e) == [ok |-> FALSE, val |-> <<>>, err |-> e]
\* Option<T>; the payload of process_file_diff is the pair <<file_name, completion>>
None == [some |-> FALSE, val |-> <<>>]
Some(x) == [some |-> TRUE, val |-> x]

\* the two error sources: tera::Error and the LlmClient's error
TeraError == "tera::Error"
LlmError == "llm error"

(***************************************************************************)
(* Text primitives of the Rust standard library used by the code.          *)
(***************************************************************************)
NL == "\n"
CR == "\r"

RECURSIVE Concat(_)
\* concatenation of a sequence of texts
Concat(ss) == IF ss = <<>> THEN <<>> ELSE Head(ss) \o Concat(Tail(ss))

RECURSIVE Join(_, _)
\* [String]::join(sep)
Join(ss, sep) ==
    IF ss = <<>> THEN <<>>
    ELSE IF Len(ss) = 1 THEN ss[1]
    ELSE ss[1] \o sep \o Join(Tail(ss), sep)

\* str::contains(&String): substring search, byte for byte
Contains(s, pat) ==
    \E i \in 0..Len(s) :
        /\ i + Len(pat) <= Len(s)
        /\ SubSeq(s, i + 1, i + Len(pat)) = pat

UpperChars == <<"A","B","C","D","E","F","G","H","I","J","K","L","M",
                "N","O","P","Q","R","S","T","U","V","W","X","Y","Z">>
LowerChars == <<"a","b","c","d","e","f","g","h","i","j","k","l","m",
                "n","o","p","q","r","s","t","u","v","w","x","y","z">>

\* char::to_ascii_lowercase
ToLower == [c \in {UpperChars[i] : i \in 1..Len(UpperChars)} |->
               LowerChars[CHOOSE i \in 1..Len(UpperChars) : UpperChars[i] = c]]
LowerChar(c) == IF c \in DOMAIN ToLower THEN ToLower[c] ELSE c

\* str::to_ascii_lowercase
ToAsciiLowercase(s) == [i \in 1..Len(s) |-> LowerChar(s[i])]

WhiteSpace == {" ", NL, CR, "\t"}

\* str::trim: strips leading and trailing whitespace
Trim(s) ==
    IF \A i \in 1..Len(s) : s[i] \in WhiteSpace THEN <<>>
    ELSE LET first == CHOOSE i \in 1..Len(s) :
                          /\ s[i] \notin WhiteSpace
                          /\ \A j \in 1..(i - 1) : s[j] \in WhiteSpace
             last == CHOOSE i \in 1..Len(s) :
                          /\ s[i] \notin WhiteSpace
                          /\ \A j \in (i + 1)..Len(s) : s[j] \in WhiteSpace
         IN SubSeq(s, first, last)

\* one line as str::lines yields it: the terminator "\n" is cut, and one "\r"
\* before it; the last line, which has no terminator, is left as it is
StripLine(raw) ==
    IF raw # <<>> /\ raw[Len(raw)] = NL
    THEN LET l == SubSeq(raw, 1, Len(raw) - 1)
         IN IF l # <<>> /\ l[Len(l)] = CR THEN SubSeq(l, 1, Len(l) - 1) ELSE l
    ELSE raw

RECURSIVE Lines(_)
\* str::lines: split after every "\n"; a text ending in "\n" has no extra
\* empty last line
Lines(s) ==
    IF s = <<>> THEN <<>>
    ELSE IF \E i \in 1..Len(s) : s[i] = NL
    THEN LET n == CHOOSE i \in 1..Len(s) :
                      s[i] = NL /\ \A j \in 1..(i - 1) : s[j] # NL
         IN <<StripLine(SubSeq(s, 1, n))>> \o Lines(SubSeq(s, n + 1, Len(s)))
    ELSE <<s>>

RECURSIVE DedupFrom(_, _)
DedupFrom(kept, rest) ==
    IF rest = <<>> THEN kept
    ELSE IF kept # <<>> /\ kept[Len(kept)] = Head(rest)
    THEN DedupFrom(kept, Tail(rest))
    ELSE DedupFrom(Append(kept, Head(rest)), Tail(rest))

RECURSIVE DedupAllFrom(_, _)
DedupAllFrom(kept, rest) ==
    IF rest = <<>> THEN kept
    ELSE IF \E i \in 1..Len(kept) : kept[i] = Head(rest)
    THEN DedupAllFrom(kept, Tail(rest))
    ELSE DedupAllFrom(Append(kept, Head(rest)), Tail(rest))

\* mutant of Dedup: drops every element already kept, adjacent or not
Dedup_All(v) == DedupAllFrom(<<>>, v)

\* Vec::dedup: drops an element equal to the element kept just before it
Dedup(v) == DedupFrom(<<>>, v)

(***************************************************************************)
(* Templates (tera).  A template is a syntax flag and a sequence of parts: *)
(* literal text, {{ name }}, and {% if name %}body{% endif %}.             *)
(***************************************************************************)
Lit(t) == [k |-> "lit", name |-> "", text |-> t, body |-> <<>>]
Var(n) == [k |-> "var", name |-> n, text |-> <<>>, body |-> <<>>]
IfSet(n, b) == [k |-> "if", name |-> n, text |-> <<>>, body |-> b]
Template(parts) == [syntax_ok |-> TRUE, parts |-> parts]
\* a template tera cannot parse
Malformed == [syntax_ok |-> FALSE, parts |-> <<>>]

RECURSIVE RenderParts(_, _)
\* rendering of the parts against a context (a function from names to texts):
\* a {{ name }} the context does not bind is an error; an {% if %} on an
\* unbound or empty name renders nothing
RenderParts(parts, ctx) ==
    IF parts = <<>> THEN Ok(<<>>)
    ELSE LET p == Head(parts)
             here == IF p.k = "lit" THEN Ok(p.text)
                     ELSE IF p.k = "var"
                     THEN IF p.name \in DOMAIN ctx THEN Ok(ctx[p.name])
                          ELSE Err(TeraError)
                     ELSE IF p.name \in DOMAIN ctx /\ ctx[p.name] # <<>>
                          THEN RenderParts(p.body, ctx)
                          ELSE Ok(<<>>)
         IN IF ~here.ok THEN here
            ELSE LET rest == RenderParts(Tail(parts), ctx)
                 IN IF ~rest.ok THEN rest ELSE Ok(here.val \o rest.val)

\* tera's parse of the template texts used here; "{% if" is an unclosed tag
Parse ==
    ("" :> Template(<<>>))
    @@ ("{% if" :> Malformed)
    @@ ("{{ summary_points }}" :> Template(<<Var("summary_points")>>))
    @@ ("{{ file_diff }}" :> Template(<<Var("file_diff")>>))
    @@ ("{{ prefix }}" :> Template(<<Var("prefix")>>))
    @@ ("{{ commit_message }}|{{ file_diff }}" :>
          Template(<<Var("commit_message"), Lit(<<"|">>), Var("file_diff")>>))
    @@ ("t{{ commit_message }}{{ summary_points }}" :>
          Template(<<Lit(<<"t">>), Var("commit_message"), Var("summary_points")>>))
    @@ ("{% if commit_message %}{{ commit_message }}{% endif %}{{ summary_points }}" :>
          Template(<<IfSet("commit_message", <<Var("commit_message")>>),
                     Var("summary_points")>>))
    @@ ("{{ output_language }}:{{ commit_message }}" :>
          Template(<<Var("output_language"), Lit(<<":">>), Var("commit_message")>>))
    @@ ("[{{ prefix }}] " :>
          Template(<<Lit(<<"[">>), Var("prefix"), Lit(<<"]"," ">>)>>))

\* Tera::one_off(template, context, false)
one_off(template, ctx) ==
    IF ~Parse[template].syntax_ok THEN Err(TeraError)
    ELSE RenderParts(Parse[template].parts, ctx)

\* format_prompt: the map becomes the context, then Tera::one_off
format_prompt(prompt, map) == one_off(prompt, map)

(***************************************************************************)
(* The texts the model runs on.                                            *)
(***************************************************************************)
README_md == <<"R","E","A","D","M","E",".","m","d">>
lib_rs == <<"l","i","b",".","r","s">>
\* file_ignore entries: one matching README.md, one differing from lib.rs
\* in case only
IgnoreEntries == {<<"R","E","A","D","M","E">>, <<"L","I","B">>}
\* the file_ignore settings: the default, which is empty, and both entries
IgnoreLists == {{}, IgnoreEntries}

\* a file's diff as the splitter hands it over: the text, and the file name
\* its header carries (none when the header is not a diff header)
Fragments ==
    { [file_name |-> Some(README_md), text |-> <<"+","r">>],
      [file_name |-> Some(lib_rs), text |-> <<"+","x">>],
      [file_name |-> None, text |-> <<"?">>] }

CommitMessages == {<<"m">>}

\* the ten conventional-commit types of conventional_commit_prefix
ConventionalTypes ==
    { <<"b","u","i","l","d">>, <<"c","h","o","r","e">>, <<"c","i">>,
      <<"d","o","c","s">>, <<"f","e","a","t">>, <<"f","i","x">>,
      <<"p","e","r","f">>, <<"r","e","f","a","c","t","o","r">>,
      <<"s","t","y","l","e">>, <<"t","e","s","t">> }

\* what the LlmClient may answer, per kind of request
FileCompletions == {Err(LlmError), Ok(<<"-","X">>)}
TitleCompletions == {Err(LlmError), Ok(<<"T">>)}
SummaryCompletions == {Err(LlmError), Ok(<<"b",NL,"b">>)}
PrefixCompletions ==
    { Err(LlmError), Ok(<<"c","h","o","r","e">>), Ok(<<"F","e","a","t"," ">>),
      Ok(<<"f","e","a","t","u","r","e">>), Ok(<<>>) }
TranslationCompletions == {Err(LlmError), Ok(<<"j","a">>)}

\* the answers of the three requests of try_join!
CompletionsOf(k) ==
    IF k = "title" THEN TitleCompletions
    ELSE IF k = "summary" THEN SummaryCompletions
    ELSE PrefixCompletions

Languages == {"En", "Ja"}
\* Language::to_string
LanguageToString(lang) == IF lang = "En" THEN <<"E","n">> ELSE <<"J","a">>

\* the templates a configuration may carry, per setting, as the texts the
\* settings hold
FileDiffTemplates == { "{{ commit_message }}|{{ file_diff }}", "{{ summary_points }}" }
TitleTemplates == { "t{{ commit_message }}{{ summary_points }}", "{% if" }
SummaryTemplates ==
    { "{% if commit_message %}{{ commit_message }}{% endif %}{{ summary_points }}",
      "{{ file_diff }}" }
PrefixTemplates == { "{{ summary_points }}", "{% if" }
TranslationTemplates == { "{{ output_language }}:{{ commit_message }}", "{{ prefix }}" }
PrefixFormats == { "[{{ prefix }}] ", "{% if" }

\* the variables each template is rendered with
AllBound == [n \in {"file_diff", "commit_message", "summary_points",
                    "output_language", "prefix"} |-> <<"v">>]
BoundFor(field) ==
    IF field = "prompt_file_diff" THEN {"file_diff", "commit_message"}
    ELSE IF field \in {"prompt_commit_summary", "prompt_commit_title"}
    THEN {"summary_points", "commit_message"}
    ELSE IF field = "prompt_conventional_commit_prefix" THEN {"summary_points"}
    ELSE IF field = "prompt_translation" THEN {"commit_message", "output_language"}
    ELSE {"prefix"}
TemplateFields ==
    { "prompt_file_diff", "prompt_conventional_commit_prefix",
      "prompt_commit_summary", "prompt_commit_title", "prompt_translation",
      "output_conventional_commit_prefix_format" }
\* whether the template of a field can never render
Fails(c, field) ==
    ~one_off(c[field], [n \in BoundFor(field) |-> AllBound[n]]).ok

(***************************************************************************)
(* SummarizationClient: the fields set by new(), and the run of            *)
(* get_commit_message.                                                     *)
(***************************************************************************)
\* every SummarizationClient that new() can build from the settings above
Configs ==
    { c \in [ file_ignore : IgnoreLists,
              prompt_file_diff : FileDiffTemplates,
              prompt_conventional_commit_prefix : PrefixTemplates,
              prompt_commit_summary : SummaryTemplates,
              prompt_commit_title : TitleTemplates,
              prompt_translation : TranslationTemplates,
              output_conventional_commit : BOOLEAN,
              output_conventional_commit_prefix_format : PrefixFormats,
              output_lang : Languages,
              output_show_per_file_summary : BOOLEAN ] :
        Cardinality({f \in TemplateFields : Fails(c, f)}) <= MaxBadTemplates }

RECURSIVE SeqsUpTo(_, _)
\* the sequences over S of length at most n
SeqsUpTo(S, n) ==
    IF n = 0 THEN {<<>>}
    ELSE LET shorter == SeqsUpTo(S, n - 1)
         IN shorter \cup {Append(q, x) : q \in shorter, x \in S}

\* the orders in which a HashMap with key set S may be iterated
Orders(S) ==
    { o \in [1..Cardinality(S) -> S] :
        \A i, j \in 1..Cardinality(S) : i # j => o[i] # o[j] }

VARIABLES
    self,               \* the SummarizationClient
    pc,                 \* where get_commit_message stands
    file_diffs,         \* its argument file_diffs
    commit_message,     \* its argument commit_message
    set,                \* the JoinSet: one task per file diff
    summary_for_file,   \* the HashMap file name -> summary
    iter_order,         \* the order in which summary_for_file iterates
    summary_points,     \* the aggregate text
    futs,               \* the three futures of try_join!
    message0,           \* message as accumulated by push_str (lines 99-107)
    lines,              \* lines after dedup (lines 110-111)
    message1,           \* lines joined (line 112)
    translation,        \* the commit_translate call of line 114
    formated_prefix,    \* the rendered prefix of line 118, once rendered
    ret                 \* what get_commit_message returned

vars == <<self, pc, file_diffs, commit_message, set, summary_for_file,
          iter_order, summary_points, futs, message0, lines, message1,
          translation, formated_prefix, ret>>

\* the return value: not yet returned, or Ok(message), or Err(error)
NotReturned == [returned |-> FALSE, ok |-> FALSE, val |-> <<>>, err |-> ""]
Return(r) == [returned |-> TRUE, ok |-> r.ok, val |-> r.val, err |-> r.err]

\* a future that has not been polled yet
Unpolled == [st |-> "unpolled", res |-> Ok(<<>>), prompt |-> <<>>,
             renders |-> 0, calls |-> 0]
\* mutant of Requested: a render error degrades to an empty result
Requested_Degrading(prompt) ==
    IF prompt.ok
    THEN [st |-> "awaiting", res |-> Ok(<<>>), prompt |-> prompt.val,
          renders |-> 1, calls |-> 1]
    ELSE [st |-> "ready", res |-> Ok(<<>>), prompt |-> <<>>,
          renders |-> 1, calls |-> 0]

\* mutant of Requested: the request is made a second time
Requested_Twice(prompt) ==
    IF prompt.ok
    THEN [st |-> "awaiting", res |-> Ok(<<>>), prompt |-> prompt.val,
          renders |-> 1, calls |-> 2]
    ELSE [st |-> "failed", res |-> Err(prompt.err), prompt |-> <<>>,
          renders |-> 1, calls |-> 0]

\* a future that rendered its prompt: failed on a render error, else waiting
\* for LlmClient::completions
Requested(prompt) ==
    IF prompt.ok
    THEN [st |-> "awaiting", res |-> Ok(<<>>), prompt |-> prompt.val,
          renders |-> 1, calls |-> 1]
    ELSE [st |-> "failed", res |-> Err(prompt.err), prompt |-> <<>>,
          renders |-> 1, calls |-> 0]
\* a future that returned without rendering or calling anything
Immediate(r) == [st |-> "ready", res |-> r, prompt |-> <<>>,
                 renders |-> 0, calls |-> 0]
\* mutant of Drop: the future is left waiting for its answer
Drop_Keep(f) == f

\* a future dropped by its owner before it completed
Drop(f) == IF f.st = "awaiting" THEN [f EXCEPT !.st = "dropped"] ELSE f

\* util::get_file_name_from_diff
get_file_name_from_diff(file_diff) == file_diff.file_name

\* mutant of IsIgnored: the entries match whatever the case
IsIgnored_AnyCase(c, file_name) ==
    \E ignore \in c.file_ignore :
        Contains(ToAsciiLowercase(file_name), ToAsciiLowercase(ignore))

\* the file_ignore test of process_file_diff
IsIgnored(c, file_name) == \E ignore \in c.file_ignore : Contains(file_name, ignore)

\* diff_summary up to its await
diff_summary(c, file_diff, cm) ==
    Requested(format_prompt(c.prompt_file_diff,
                            ("file_diff" :> file_diff.text) @@ ("commit_message" :> cm)))

\* mutant of unwrap_or_empty: the error text stands in for the summary
unwrap_or_error_text(r) == IF r.ok THEN r.val ELSE <<"e","r","r","o","r">>

\* Result::unwrap_or_else(|_| "".to_string())
unwrap_or_empty(r) == IF r.ok THEN r.val ELSE <<>>

\* process_file_diff up to its first await: a task record, out being the
\* task's output once st = "finished"
process_file_diff(c, file_diff, cm) ==
    LET name == get_file_name_from_diff(file_diff)
    IN IF ~name.some THEN [fut |-> Immediate(Ok(<<>>)), st |-> "finished", out |-> None]
       ELSE IF IsIgnored(c, name.val)
       THEN [fut |-> Immediate(Ok(<<>>)), st |-> "finished", out |-> None]
       ELSE LET f == diff_summary(c, file_diff, cm)
            IN IF f.st = "failed"
               THEN [fut |-> f, st |-> "finished",
                     out |-> Some(<<name.val, unwrap_or_empty(f.res)>>)]
               ELSE [fut |-> f, st |-> "running", out |-> None]

\* mutant of Insert: an empty summary clears the entries of the other files
Insert_ResetOnEmpty(m, key, value) ==
    IF value = <<>> THEN (key :> value)
    ELSE [x \in (DOMAIN m) \cup {key} |-> IF x = key THEN value ELSE m[x]]

\* mutant of Insert: the map keeps the entry inserted last only
Insert_Replacing(m, key, value) == (key :> value)

\* mutant of Insert: an entry already present is kept
Insert_KeepFirst(m, key, value) ==
    IF key \in DOMAIN m THEN m
    ELSE [x \in (DOMAIN m) \cup {key} |-> IF x = key THEN value ELSE m[x]]

\* HashMap::insert
Insert(m, key, value) ==
    [x \in (DOMAIN m) \cup {key} |-> IF x = key THEN value ELSE m[x]]

\* mutant of SummaryPoints: entries with an empty summary are left out
SummaryPoints_NonEmpty(m, order) ==
    Join(SelectSeq([i \in 1..Len(order) |->
                      IF m[order[i]] # <<>>
                      THEN <<"[">> \o order[i] \o <<"]", NL>> \o m[order[i]]
                      ELSE <<>>],
                   LAMBDA b : b # <<>>),
         <<NL>>)

\* lines 85-89: the blocks "[file_name]\ncompletion" joined by "\n"
SummaryPoints(m, order) ==
    Join([i \in 1..Len(order) |-> <<"[">> \o order[i] \o <<"]", NL>> \o m[order[i]]],
         <<NL>>)

\* commit_title and commit_summary up to their await
commit_title(c, sp, cm) ==
    Requested(format_prompt(c.prompt_commit_title,
                            ("summary_points" :> sp) @@ ("commit_message" :> cm)))
commit_summary(c, sp, cm) ==
    Requested(format_prompt(c.prompt_commit_summary,
                            ("summary_points" :> sp) @@ ("commit_message" :> cm)))

\* mutant of conventional_commit_prefix: output_conventional_commit is not
\* looked at
conventional_commit_prefix_Always(c, sp) ==
    Requested(format_prompt(c.prompt_conventional_commit_prefix,
                            "summary_points" :> sp))

\* conventional_commit_prefix up to its await
conventional_commit_prefix(c, sp) ==
    IF ~c.output_conventional_commit THEN Immediate(Ok(<<>>))
    ELSE Requested(format_prompt(c.prompt_conventional_commit_prefix,
                                 "summary_points" :> sp))

\* conventional_commit_prefix after its await: the match of lines 180-184
prefix_match(completion) ==
    IF Trim(ToAsciiLowercase(completion)) \in ConventionalTypes
    THEN Ok(completion)
    ELSE Ok(<<>>)

\* what a future returns once the LlmClient has answered it: an error of
\* completions as it is (the ? of line 179 for the prefix), a completion as it
\* is but for the prefix, which goes through the match
Output(k, r) == IF k = "prefix" /\ r.ok THEN prefix_match(r.val) ELSE r

\* the first poll of try_join! (lines 93-97): the three futures are polled in
\* the order written, and the first error ends the join and drops the others
try_join_first(c, sp, cm) ==
    LET t == commit_title(c, sp, cm)
        s == commit_summary(c, sp, cm)
        p == conventional_commit_prefix(c, sp)
    IN IF t.st = "failed" THEN [title |-> t, summary |-> Unpolled, prefix |-> Unpolled]
       ELSE IF s.st = "failed" THEN [title |-> Drop(t), summary |-> s, prefix |-> Unpolled]
       ELSE IF p.st = "failed" THEN [title |-> Drop(t), summary |-> Drop(s), prefix |-> p]
       ELSE [title |-> t, summary |-> s, prefix |-> p]

Subs == {"title", "summary", "prefix"}

\* mutant of Accumulate: the blocks of entries with an empty summary are
\* pushed too
Accumulate_Unfiltered(c, title, completion, m, order) ==
    (title \o <<NL, NL>> \o completion \o <<NL, NL>>)
    \o (IF c.output_show_per_file_summary
        THEN Concat([i \in 1..Len(order) |->
                        <<"[">> \o order[i] \o <<"]", NL>> \o m[order[i]] \o <<NL>>])
        ELSE <<>>)

\* lines 99-107: title, blank line, body, blank line, then the per-file blocks
Accumulate(c, title, completion, m, order) ==
    (title \o <<NL, NL>> \o completion \o <<NL, NL>>)
    \o (IF c.output_show_per_file_summary
        THEN Concat([i \in 1..Len(order) |->
                        IF m[order[i]] # <<>>
                        THEN <<"[">> \o order[i] \o <<"]", NL>> \o m[order[i]] \o <<NL>>
                        ELSE <<>>])
        ELSE <<>>)

\* lines 110-111
DedupLines(message) == Dedup(Lines(message))

\* mutant of commit_translate: a translation template that does not render
\* leaves the message untranslated
commit_translate_Fallback(c, message) ==
    IF c.output_lang = "En" \/ Fails(c, "prompt_translation")
    THEN Immediate(Ok(message))
    ELSE Requested(format_prompt(c.prompt_translation,
                                 ("commit_message" :> message)
                                 @@ ("output_language" :> LanguageToString(c.output_lang))))

\* mutant of commit_translate: English is translated like any language
commit_translate_Always(c, message) ==
    Requested(format_prompt(c.prompt_translation,
                            ("commit_message" :> message)
                            @@ ("output_language" :> LanguageToString(c.output_lang))))

\* commit_translate up to its await
commit_translate(c, message) ==
    IF c.output_lang = "En" THEN Immediate(Ok(message))
    ELSE Requested(format_prompt(c.prompt_translation,
                                 ("commit_message" :> message)
                                 @@ ("output_language" :> LanguageToString(c.output_lang))))

\* line 119
FormatPrefix(c, prefix) ==
    one_off(c.output_conventional_commit_prefix_format, "prefix" :> prefix)

Init ==
    /\ self \in Configs
    /\ pc = "idle"
    /\ file_diffs = <<>>
    /\ commit_message = <<>>
    /\ set = <<>>
    /\ summary_for_file = <<>>
    /\ iter_order = <<>>
    /\ summary_points = <<>>
    /\ futs = [k \in Subs |-> Unpolled]
    /\ message0 = <<>>
    /\ lines = <<>>
    /\ message1 = <<>>
    /\ translation = Unpolled
    /\ formated_prefix = None
    /\ ret = NotReturned

\* mutant of Prefixed: the rendered prefix is pushed at the end
Prefixed_Appended(prefix, translated) ==
    LET formated == FormatPrefix(self, prefix)
    IN /\ formated_prefix' = IF prefix # <<>> /\ formated.ok THEN Some(formated.val) ELSE None
       /\ ret' = IF prefix = <<>> THEN Return(Ok(translated))
                 ELSE IF ~formated.ok THEN Return(Err(formated.err))
                 ELSE Return(Ok(translated \o formated.val))
       /\ pc' = "done"

\* lines 115-123 on the translated message: the prefix, when there is one, is
\* rendered and inserted at the front
Prefixed(prefix, translated) ==
    LET formated == FormatPrefix(self, prefix)
    IN /\ formated_prefix' = IF prefix # <<>> /\ formated.ok THEN Some(formated.val) ELSE None
       /\ ret' = IF prefix = <<>> THEN Return(Ok(translated))
                 ELSE IF ~formated.ok THEN Return(Err(formated.err))
                 ELSE Return(Ok(formated.val \o translated))
       /\ pc' = "done"

\* mutant of Assemble: the prefix is rendered before the translation is
\* requested
Assemble_PrefixFirst(title, completion, prefix) ==
    LET formated == FormatPrefix(self, prefix)
        early == IF prefix # <<>> /\ formated.ok THEN Some(formated.val) ELSE None
    IN /\ message0' = Accumulate(self, title, completion, summary_for_file, iter_order)
       /\ lines' = DedupLines(message0')
       /\ message1' = Join(lines', <<NL>>)
       /\ translation' = commit_translate(self, message1')
       /\ IF translation'.st = "failed"
          THEN pc' = "done" /\ ret' = Return(translation'.res) /\ formated_prefix' = early
          ELSE IF translation'.st = "ready" THEN Prefixed(prefix, translation'.res.val)
          ELSE pc' = "translating" /\ formated_prefix' = early /\ UNCHANGED ret

\* lines 99-123, entered when the three futures are ready: runs to the await
\* of the translation, or to the return when nothing is to be translated
Assemble(title, completion, prefix) ==
    /\ message0' = Accumulate(self, title, completion, summary_for_file, iter_order)
    /\ lines' = DedupLines(message0')
    /\ message1' = Join(lines', <<NL>>)
    /\ translation' = commit_translate(self, message1')
    /\ IF translation'.st = "failed"
       THEN pc' = "done" /\ ret' = Return(translation'.res) /\ UNCHANGED formated_prefix
       ELSE IF translation'.st = "ready" THEN Prefixed(prefix, translation'.res.val)
       ELSE pc' = "translating" /\ UNCHANGED <<ret, formated_prefix>>

\* lines 85-97, entered when join_next has returned None: the aggregate text
\* and the first poll of try_join!
Compose(m) ==
    \E order \in Orders(DOMAIN m) :
        /\ iter_order' = order
        /\ summary_points' = SummaryPoints(m, order)
        /\ futs' = try_join_first(self, summary_points', commit_message')
        /\ IF \E k \in Subs : futs'[k].st = "failed"
           THEN /\ pc' = "done"
                /\ ret' = Return(futs'[CHOOSE k \in Subs : futs'[k].st = "failed"].res)
           ELSE pc' = "composing" /\ UNCHANGED ret
        /\ UNCHANGED <<message0, lines, message1, translation, formated_prefix>>

\* get_commit_message is called (lines 68-78): one task is spawned per file
\* diff; with no file diff the join loop ends at once
GetCommitMessage ==
    /\ pc = "idle"
    /\ \E fds \in SeqsUpTo(Fragments, MaxFiles), cm \in CommitMessages :
        /\ file_diffs' = fds
        /\ commit_message' = cm
        /\ set' = [i \in 1..Len(fds) |->
                     [fut |-> Unpolled, st |-> "spawned", out |-> None]]
        /\ UNCHANGED <<self, summary_for_file>>
        /\ IF fds = <<>> THEN Compose(summary_for_file)
           ELSE /\ pc' = "joining"
                /\ UNCHANGED <<iter_order, summary_points, futs, message0, lines,
                               message1, translation, formated_prefix, ret>>

\* a spawned task runs process_file_diff up to its first await
TaskRun(i) ==
    /\ pc # "idle"
    /\ i \in DOMAIN set
    /\ set[i].st = "spawned"
    /\ set' = [set EXCEPT ![i] = process_file_diff(self, file_diffs[i], commit_message)]
    /\ UNCHANGED <<self, pc, file_diffs, commit_message, summary_for_file, iter_order,
                   summary_points, futs, message0, lines, message1, translation,
                   formated_prefix, ret>>

\* the LlmClient answers a task's request, and the task finishes (lines 145-149)
TaskCompletion(i) ==
    /\ i \in DOMAIN set
    /\ set[i].st = "running"
    /\ \E r \in FileCompletions :
        set' = [set EXCEPT ![i] =
                  [fut |-> [set[i].fut EXCEPT !.st = "ready", !.res = r],
                   st |-> "finished",
                   out |-> Some(<<get_file_name_from_diff(file_diffs[i]).val,
                                  unwrap_or_empty(r)>>)]]
    /\ UNCHANGED <<self, pc, file_diffs, commit_message, summary_for_file, iter_order,
                   summary_points, futs, message0, lines, message1, translation,
                   formated_prefix, ret>>

\* mutant of JoinSetEmpty: the loop ends after the first task joined
JoinSetEmpty_Early(s) == \E j \in DOMAIN s : s[j].st = "joined"

\* mutant of JoinSetEmpty: the loop never ends
JoinSetEmpty_Never(s) == FALSE

\* join_next returns None (line 79): every task of the set has been yielded
JoinSetEmpty(s) == \A j \in DOMAIN s : s[j].st = "joined"

\* join_next yields a finished task (lines 79-83); after the last one the loop
\* ends and the call goes on to line 85
JoinNext(i) ==
    /\ pc = "joining"
    /\ i \in DOMAIN set
    /\ set[i].st = "finished"
    /\ set' = [set EXCEPT ![i].st = "joined"]
    /\ summary_for_file' =
         IF set[i].out.some
         THEN Insert(summary_for_file, set[i].out.val[1], set[i].out.val[2])
         ELSE summary_for_file
    /\ UNCHANGED <<self, file_diffs, commit_message>>
    /\ IF JoinSetEmpty(set')
       THEN Compose(summary_for_file')
       ELSE UNCHANGED <<pc, iter_order, summary_points, futs, message0, lines,
                        message1, translation, formated_prefix, ret>>

\* the LlmClient answers one of the requests of try_join!, which is polled
\* again (lines 93-97).  An error ends the call (line 97) and drops the other
\* futures; a completion is kept, and with all three ready the call goes on
\* to line 99.
TryJoinPoll ==
    /\ pc = "composing"
    /\ \E k \in Subs :
        /\ futs[k].st = "awaiting"
        /\ \E r \in CompletionsOf(k) :
            IF ~r.ok
            THEN /\ futs' = [j \in Subs |->
                               IF j = k
                               THEN [futs[j] EXCEPT !.st = "failed", !.res = r]
                               ELSE Drop(futs[j])]
                 /\ pc' = "done"
                 /\ ret' = Return(r)
                 /\ UNCHANGED <<message0, lines, message1, translation, formated_prefix>>
            ELSE /\ futs' = [futs EXCEPT ![k] = [@ EXCEPT !.st = "ready",
                                                         !.res = Output(k, r)]]
                 /\ IF \A j \in Subs : futs'[j].st = "ready"
                    THEN Assemble(futs'["title"].res.val, futs'["summary"].res.val,
                                  futs'["prefix"].res.val)
                    ELSE UNCHANGED <<pc, message0, lines, message1, translation,
                                     formated_prefix, ret>>
    /\ UNCHANGED <<self, file_diffs, commit_message, set, summary_for_file,
                   iter_order, summary_points>>

\* the LlmClient answers the translation request (lines 114-123)
TranslateCompletion ==
    /\ pc = "translating"
    /\ \E r \in TranslationCompletions :
        /\ translation' = [translation EXCEPT !.st = IF r.ok THEN "ready" ELSE "failed",
                                              !.res = r]
        /\ IF r.ok THEN Prefixed(futs["prefix"].res.val, r.val)
           ELSE pc' = "done" /\ ret' = Return(r) /\ UNCHANGED formated_prefix
    /\ UNCHANGED <<self, file_diffs, commit_message, set, summary_for_file, iter_order,
                   summary_points, futs, message0, lines, message1>>

Next ==
    \/ GetCommitMessage
    \/ \E i \in 1..(MaxFiles + 1) : TaskRun(i)
    \/ \E i \in 1..(MaxFiles + 1) : TaskCompletion(i)
    \/ \E i \in 1..(MaxFiles + 1) : JoinNext(i)
    \/ TryJoinPoll
    \/ TranslateCompletion

Spec == Init /\ [][Next]_vars

(***************************************************************************)
(* Lines 110-112 on their own: a text is split into lines, deduplicated    *)
(* and joined again.                                                       *)
(***************************************************************************)
TextChars == {"A", "B", NL, CR}

DefaultClient ==
    [ file_ignore |-> {},
      prompt_file_diff |-> "{{ commit_message }}|{{ file_diff }}",
      prompt_conventional_commit_prefix |-> "{{ summary_points }}",
      prompt_commit_summary |->
        "{% if commit_message %}{{ commit_message }}{% endif %}{{ summary_points }}",
      prompt_commit_title |-> "t{{ commit_message }}{{ summary_points }}",
      prompt_translation |-> "{{ output_language }}:{{ commit_message }}",
      output_conventional_commit |-> TRUE,
      output_conventional_commit_prefix_format |-> "[{{ prefix }}] ",
      output_lang |-> "En",
      output_show_per_file_summary |-> FALSE ]

InitLines ==
    /\ self = DefaultClient
    /\ pc = "text"
    /\ message0 \in SeqsUpTo(TextChars, MaxTextLen)
    /\ file_diffs = <<>>
    /\ commit_message = <<>>
    /\ set = <<>>
    /\ summary_for_file = <<>>
    /\ iter_order = <<>>
    /\ summary_points = <<>>
    /\ futs = [k \in Subs |-> Unpolled]
    /\ lines = <<>>
    /\ message1 = <<>>
    /\ translation = Unpolled
    /\ formated_prefix = None
    /\ ret = NotReturned

\* lines 110-112
SplitDedupJoin ==
    /\ pc = "text"
    /\ lines' = DedupLines(message0)
    /\ message1' = Join(lines', <<NL>>)
    /\ pc' = "deduped"
    /\ UNCHANGED <<self, file_diffs, commit_message, set, summary_for_file, iter_order,
                   summary_points, futs, message0, translation, formated_prefix, ret>>

NextLines == SplitDedupJoin

SpecLines == InitLines /\ [][NextLines]_vars

(***************************************************************************)
(* Properties.                                                             *)
(***************************************************************************)
\* pat occurs in s, character for character
IsSubstring(pat, s) ==
    \E a \in 0..(Len(s) - Len(pat)) : SubSeq(s, a + 1, a + Len(pat)) = pat

\* the file names the fragments carry
FragmentNames == {f.file_name.val : f \in {g \in Fragments : g.file_name.some}}
\* per file_ignore setting, the file names that contain none of its entries
NotIgnored ==
    [l \in IgnoreLists |-> {n \in FragmentNames : ~\E e \in l : IsSubstring(e, n)}]
\* per setting that holds a template, the templates that never render
Unrenderable ==
    [f \in TemplateFields |->
        {c[f] : c \in {d \in Configs : Fails(d, f)}}]
\* the template of a setting of this client renders
Renders(f) == self[f] \notin Unrenderable[f]

\* the file names of the input fragments
InputNames ==
    { file_diffs[i].file_name.val :
        i \in {j \in DOMAIN file_diffs : file_diffs[j].file_name.some} }
\* those that contain no file_ignore entry
KeptNames == InputNames \cap NotIgnored[self.file_ignore]
\* the join loop has ended
Joined == pc \in {"composing", "translating", "done"}
\* the "[file_name]\nsummary_text" block of an entry
BlockOf(n) == <<"[">> \o n \o <<"]", NL>> \o summary_for_file[n]
\* task i ran a summarization and it failed: the template did not render, or
\* the completion was an error
SummaryFailed(i) ==
    /\ set[i].st \in {"finished", "joined"}
    /\ set[i].fut.renders = 1
    /\ ~set[i].fut.res.ok
\* the names carried by exactly one fragment
UniqueName(i) ==
    /\ file_diffs[i].file_name.some
    /\ \A j \in DOMAIN file_diffs :
          j # i => file_diffs[j].file_name # file_diffs[i].file_name

\* C1: once all tasks are joined, the keys of summary_for_file are the input
\* file names that contain no file_ignore entry as a case-sensitive substring;
\* before that, no other key is ever present.
C1_KeySet ==
    /\ Joined => /\ \A i \in DOMAIN set : set[i].st = "joined"
                 /\ DOMAIN summary_for_file = KeptNames
    /\ DOMAIN summary_for_file \subseteq KeptNames

\* C1 witness: README.md is ignored through the entry README, lib.rs is kept
\* although LIB is an entry, and the join has ended.
C1_Witness ==
    /\ Joined
    /\ Len(file_diffs) = 2
    /\ InputNames = {README_md, lib_rs}
    /\ self.file_ignore = IgnoreEntries
    /\ DOMAIN summary_for_file = {lib_rs}

\* C2: a task whose summarization failed returns (file_name, ""), that is the
\* text recorded for a file name no other fragment carries, and a call in which
\* no composer future, no translation and no prefix format failed returns Ok.
C2_FailedSummaryIsEmpty ==
    /\ \A i \in DOMAIN set :
          SummaryFailed(i) =>
             /\ set[i].out = Some(<<file_diffs[i].file_name.val, <<>>>>)
             /\ (Joined /\ UniqueName(i)) =>
                    summary_for_file[file_diffs[i].file_name.val] = <<>>
    /\ ( /\ pc = "done"
         /\ \A k \in Subs : futs[k].st = "ready"
         /\ translation.st = "ready"
         /\ (futs["prefix"].res.val # <<>> => formated_prefix.some) )
       => ret.returned /\ ret.ok

\* C2 witness: the summarization of a file no other fragment names failed on
\* a completion error, and the call returned a message.
C2_Witness ==
    /\ pc = "done"
    /\ ret.ok
    /\ \E i \in DOMAIN set : SummaryFailed(i) /\ set[i].fut.calls = 1 /\ UniqueName(i)

\* C3: when the title, the summary or the prefix future has failed, or its
\* template cannot render, the call has returned an error once the join loop
\* has ended, and no message.
C3_ComposerFailureIsError ==
    ( /\ Joined
      /\ \/ \E k \in Subs : futs[k].st = "failed"
         \/ ~Renders("prompt_commit_title")
         \/ ~Renders("prompt_commit_summary")
         \/ ( /\ self.output_conventional_commit
              /\ ~Renders("prompt_conventional_commit_prefix") ) )
    => pc = "done" /\ ret.returned /\ ~ret.ok

\* C3 witness: the prefix completion failed after title and summary had
\* completed, and the call returned the error.
C3_Witness ==
    /\ pc = "done"
    /\ futs["prefix"].st = "failed"
    /\ futs["prefix"].calls = 1
    /\ futs["title"].st = "ready"
    /\ futs["summary"].st = "ready"
    /\ ~ret.ok

\* C4: the prefix conventional_commit_prefix returns is "" or one of the ten
\* types.  (Violated: the completion is returned as it came.)
C4_PrefixInClosedSet ==
    futs["prefix"].st = "ready" => futs["prefix"].res.val \in ConventionalTypes \cup {<<>>}

\* C5: with output_conventional_commit false the prefix template is never
\* rendered, no prefix completion is requested, and a returned message is the
\* translator's output.
C5_NoClassification ==
    ~self.output_conventional_commit =>
        /\ futs["prefix"].renders = 0
        /\ futs["prefix"].calls = 0
        /\ futs["prefix"].prompt = <<>>
        /\ formated_prefix = None
        /\ (ret.returned /\ ret.ok) => ret.val = translation.res.val

\* C5 witness: such a call returned a translated message.
C5_Witness ==
    /\ ~self.output_conventional_commit
    /\ self.output_lang # "En"
    /\ self.output_conventional_commit_prefix_format = "[{{ prefix }}] "
    /\ ret.returned
    /\ ret.ok

\* the n-th of the places of a sequence of lines whose line differs from the
\* line before it
KeptPlaces(L) == {i \in 1..Len(L) : i = 1 \/ L[i] # L[i - 1]}
NthKept(L, n) ==
    CHOOSE i \in KeptPlaces(L) : Cardinality({j \in KeptPlaces(L) : j <= i}) = n

\* C6: lines holds the lines of the accumulated text but those equal to the
\* line before them, in their order; no two neighbours of it are equal; and
\* the message is these lines joined by newlines.
C6_ConsecutiveDedup ==
    pc \in {"deduped", "translating", "done"} =>
        LET L == Lines(message0)
        IN /\ Len(lines) = Cardinality(KeptPlaces(L))
           /\ \A n \in 1..Len(lines) : lines[n] = L[NthKept(L, n)]
           /\ \A n \in 1..(Len(lines) - 1) : lines[n] # lines[n + 1]
           /\ message1 = Join(lines, <<NL>>)

\* C6 witness: "A\nA\nB\nA" has become "A\nB\nA".
C6_Witness ==
    /\ pc = "deduped"
    /\ message0 = <<"A", NL, "A", NL, "B", NL, "A">>
    /\ message1 = <<"A", NL, "B", NL, "A">>

\* C7: with output_lang English commit_translate renders nothing, requests
\* nothing and returns the message it was given.
C7_EnglishUntranslated ==
    self.output_lang = "En" =>
        /\ translation.renders = 0
        /\ translation.calls = 0
        /\ translation.st \in {"unpolled", "ready"}
        /\ translation.st = "ready" => translation.res = Ok(message1)
        /\ pc # "translating"

\* C7 witness: an English call went through commit_translate and returned.
C7_Witness ==
    /\ self.output_lang = "En"
    /\ translation.st = "ready"
    /\ message1 # <<>>
    /\ ret.returned
    /\ ret.ok

\* C8: the prefix is formatted only once the translation has returned, while
\* the translation is awaited nothing has been formatted or returned, and a
\* message returned with a prefix is the rendered format followed by the
\* translator's output.
C8_PrefixAfterTranslation ==
    /\ formated_prefix.some => translation.st = "ready"
    /\ pc = "translating" => formated_prefix = None /\ ~ret.returned
    /\ (ret.returned /\ ret.ok /\ futs["prefix"].res.val # <<>>) =>
          /\ formated_prefix.some
          /\ formated_prefix.val =
                one_off(self.output_conventional_commit_prefix_format,
                        "prefix" :> futs["prefix"].res.val).val
          /\ ret.val = formated_prefix.val \o translation.res.val

\* C8 witness: classification chore, format "[{{ prefix }}] ", a translated
\* message: the returned message is "[chore] " and the translation.
C8_Witness ==
    /\ ret.returned
    /\ ret.ok
    /\ self.output_lang # "En"
    /\ self.output_conventional_commit_prefix_format = "[{{ prefix }}] "
    /\ futs["prefix"].res.val = <<"c","h","o","r","e">>
    /\ ret.val = <<"[","c","h","o","r","e","]"," ">> \o translation.res.val
    /\ translation.calls = 1

\* the accumulated text is set: the three futures were ready
Accumulated == pc \in {"translating", "done"} /\ \A k \in Subs : futs[k].st = "ready"
\* the part of the accumulated text after title, blank line, body, blank line
Appendix ==
    SubSeq(message0,
           Len(futs["title"].res.val) + Len(futs["summary"].res.val) + 5,
           Len(message0))
RECURSIVE SumLen(_)
SumLen(S) ==
    IF S = {} THEN 0 ELSE LET x == CHOOSE y \in S : TRUE IN Len(x) + SumLen(S \ {x})

\* C9: the accumulated text starts with title, blank line, body, blank line;
\* with output_show_per_file_summary what follows consists of the blocks
\* "[file_name]\nsummary\n" of exactly the entries with a non-empty summary,
\* and without it nothing follows.
C9_Appendix ==
    Accumulated =>
        LET shown == IF self.output_show_per_file_summary
                     THEN {n \in DOMAIN summary_for_file : summary_for_file[n] # <<>>}
                     ELSE {}
        IN /\ SubSeq(message0, 1, Len(message0) - Len(Appendix)) =
                futs["title"].res.val \o <<NL, NL>> \o futs["summary"].res.val \o <<NL, NL>>
           /\ Len(Appendix) = SumLen({BlockOf(n) \o <<NL>> : n \in shown})
           /\ \A n \in shown : IsSubstring(BlockOf(n) \o <<NL>>, Appendix)
           /\ \A n \in DOMAIN summary_for_file \ shown :
                 ~IsSubstring(<<"[">> \o n \o <<"]">>, Appendix)

\* C9 witness: one file summarized to "", one to "-X", and only the second
\* has its block in the appendix.
C9_Witness ==
    /\ Accumulated
    /\ self.output_show_per_file_summary
    /\ DOMAIN summary_for_file = {README_md, lib_rs}
    /\ summary_for_file[README_md] = <<>>
    /\ summary_for_file[lib_rs] = <<"-","X">>
    /\ Appendix = <<"[">> \o lib_rs \o <<"]", NL, "-", "X", NL>>

\* C10: the aggregate text is the blocks "[file_name]\nsummary_text" of all
\* entries of summary_for_file, in some order, joined by single newlines, an
\* entry with an empty summary included; no ignored file is in it; and each
\* composer request that was rendered carries it.
C10_AggregateBlock ==
    Joined =>
        /\ \E o \in Orders(DOMAIN summary_for_file) :
              summary_points = Join([i \in 1..Len(o) |-> BlockOf(o[i])], <<NL>>)
        /\ \A n \in InputNames \ KeptNames :
              ~IsSubstring(<<"[">> \o n \o <<"]">>, summary_points)
        /\ \A k \in Subs :
              futs[k].calls = 1 =>
                 IsSubstring(summary_points, futs[k].prompt)

\* C10 witness: README.md ignored and lib.rs summarized give "[lib.rs]\n-X",
\* and the three requests were made with it.
C10_Witness ==
    /\ Joined
    /\ InputNames = {README_md, lib_rs}
    /\ summary_points = <<"[">> \o lib_rs \o <<"]", NL, "-", "X">>
    /\ \A k \in Subs : futs[k].calls = 1

\* an entry with an empty summary keeps its header in the aggregate text
C10_EmptyEntryKept ==
    /\ Joined
    /\ DOMAIN summary_for_file = {lib_rs}
    /\ summary_points = <<"[">> \o lib_rs \o <<"]", NL>>

\* C11: with an output language other than English, a translation that failed
\* (its template did not render, or its completion was an error) makes the
\* call return that error; a message is returned only when the translation
\* request was made and answered with a completion, and it ends with it.
C11_TranslationFailureIsError ==
    self.output_lang # "En" =>
        /\ translation.st = "failed" =>
              /\ pc = "done"
              /\ ret.returned
              /\ ~ret.ok
              /\ ret.err = translation.res.err
              /\ formated_prefix = None
        /\ (ret.returned /\ ret.ok) =>
              /\ translation.st = "ready"
              /\ translation.renders = 1
              /\ translation.calls = 1
              /\ translation.res \in TranslationCompletions
              /\ IsSubstring(translation.res.val, ret.val)
              /\ Len(ret.val) = Len(translation.res.val)
                                 + (IF formated_prefix.some THEN Len(formated_prefix.val) ELSE 0)

\* C11 witness: the translation request was made and answered with an error,
\* and the call returned the error.
C11_Witness ==
    /\ self.output_lang # "En"
    /\ translation.st = "failed"
    /\ translation.calls = 1
    /\ message1 # <<>>
    /\ ret.returned
    /\ ~ret.ok

\* a translation template that does not render fails the call too
C11_RenderFailureReached ==
    /\ self.output_lang # "En"
    /\ translation.st = "failed"
    /\ translation.renders = 1
    /\ translation.calls = 0
    /\ ret.returned
    /\ ~ret.ok

\* the fragments that are summarized: named, and not ignored
Summarized(i) ==
    /\ file_diffs[i].file_name.some
    /\ file_diffs[i].file_name.val \in NotIgnored[self.file_ignore]

\* C12: no request is made twice: each task has made at most one completion
\* request, and none for a fragment that is not summarized; title, summary and
\* prefix have made at most one each, and the translation at most one; a
\* request that was answered is not waiting for an answer again.
C12_NoRetry ==
    /\ \A i \in DOMAIN set :
          /\ set[i].fut.calls \in {0, 1}
          /\ ~Summarized(i) => set[i].fut.calls = 0
          /\ set[i].st \in {"finished", "joined"} => set[i].fut.st # "awaiting"
    /\ \A k \in Subs :
          /\ futs[k].calls \in {0, 1}
          /\ futs[k].calls = 1 => futs[k].renders = 1
          /\ futs[k].st = "unpolled" => futs[k].calls = 0
          /\ pc = "done" => futs[k].st # "awaiting"
    /\ translation.calls \in {0, 1}
    /\ pc = "done" => translation.st # "awaiting"

\* C12 witness: a call in which a summarization and the translation each got
\* an error has ended, with every request made once.
C12_Witness ==
    /\ pc = "done"
    /\ \E i \in DOMAIN set : set[i].fut.calls = 1 /\ ~set[i].fut.res.ok
    /\ \A k \in Subs : futs[k].calls = 1
    /\ translation.calls = 1
    /\ ~translation.res.ok

\* the errors a composer sub-operation may return: the error of format_prompt
\* and the error of completions, both handed on as they are (the ? of lines
\* 177, 179, 192, 204 and the tail calls of lines 196, 208)
ErrorsOf(k) == {TeraError, LlmError}

\* C13: the error the call returns after a composer sub-operation failed is
\* one that no other sub-operation returns, so that it tells which one failed.
\* (Violated: title, summary and prefix hand on the same errors.)
C13_ErrorIdentifiesSubOperation ==
    \A k \in Subs :
        (pc = "done" /\ futs[k].st = "failed") =>
            /\ ret.err = futs[k].res.err
            /\ \A j \in Subs \ {k} : ret.err \notin ErrorsOf(j)

\* C14: while a task is not yet joined no composer future has been polled:
\* nothing is rendered, nothing requested, and the aggregate text is not
\* built; once a composer future was polled every task is joined and the
\* aggregate text holds the block of every summarized file name.
C14_FanInBarrier ==
    /\ (\E i \in DOMAIN set : set[i].st # "joined") =>
          /\ pc \in {"joining"}
          /\ \A k \in Subs : futs[k] = Unpolled
          /\ summary_points = <<>>
          /\ iter_order = <<>>
          /\ ~ret.returned
    /\ (\E k \in Subs : futs[k].st # "unpolled") =>
          /\ \A i \in DOMAIN set : set[i].st = "joined"
          /\ \A i \in DOMAIN set :
                Summarized(i) =>
                   IsSubstring(<<"[">> \o file_diffs[i].file_name.val \o <<"]", NL>>,
                               summary_points)

\* C14 witness: the title request is waiting for its answer after two
\* summarized tasks were joined, the one spawned second having finished with
\* an error.
C14_Witness ==
    /\ pc = "composing"
    /\ futs["title"].st = "awaiting"
    /\ Len(file_diffs) = 2
    /\ \A i \in DOMAIN set : Summarized(i) /\ set[i].st = "joined" /\ set[i].fut.calls = 1
    /\ ~set[2].fut.res.ok

\* what the LlmClient returned to task i, as the summary it stands for
Returned(i) == unwrap_or_empty(set[i].fut.res)

\* C15: no task is ever cancelled; each summarized fragment whose prompt
\* rendered has made its request whatever happened to the others, and is
\* joined only after the answer came; and once the loop has ended the text
\* recorded under a file name no other fragment carries is the completion the
\* LlmClient returned for that fragment, "" when it returned an error.
C15_TasksIsolated ==
    \A i \in DOMAIN set :
        /\ set[i].fut.st # "dropped"
        /\ (set[i].st # "spawned" /\ Summarized(i) /\ Renders("prompt_file_diff")) =>
              /\ set[i].fut.calls = 1
              /\ set[i].st = "running" <=> set[i].fut.st = "awaiting"
              /\ set[i].st \in {"finished", "joined"} =>
                    /\ set[i].fut.st = "ready"
                    /\ set[i].fut.res \in FileCompletions
                    /\ set[i].out = Some(<<file_diffs[i].file_name.val, Returned(i)>>)
        /\ (Joined /\ Summarized(i) /\ UniqueName(i)) =>
              /\ file_diffs[i].file_name.val \in DOMAIN summary_for_file
              /\ summary_for_file[file_diffs[i].file_name.val] = Returned(i)

\* C15 witness: the summarization of README.md failed on a completion error,
\* and lib.rs has the completion the LlmClient returned for it.
C15_Witness ==
    /\ Joined
    /\ \E i, j \in DOMAIN set :
          /\ file_diffs[i].file_name = Some(README_md)
          /\ file_diffs[j].file_name = Some(lib_rs)
          /\ set[i].fut.calls = 1
          /\ ~set[i].fut.res.ok
          /\ set[j].fut.res = Ok(<<"-","X">>)
    /\ summary_for_file = (README_md :> <<>>) @@ (lib_rs :> <<"-","X">>)

\* C16: when a composer future failed, the call has returned its error and
\* waits for nothing: a sibling that was waiting for its answer is dropped with
\* no result taken, no sibling failed too, nothing after try_join! has run,
\* and no step of the call is possible any more.
C16_FailureDoesNotWait ==
    \A k \in Subs :
        futs[k].st = "failed" =>
            /\ pc = "done"
            /\ ret = Return(futs[k].res)
            /\ \A j \in Subs \ {k} :
                  /\ futs[j].st \in {"unpolled", "ready", "dropped"}
                  /\ futs[j].st = "dropped" => futs[j].calls = 1 /\ futs[j].res = Ok(<<>>)
            /\ message0 = <<>>
            /\ translation = Unpolled
            /\ ~ENABLED Next

\* C16 witness: the summary request got an error while the title and the
\* prefix requests were still waiting, and the call returned that error.
C16_Witness ==
    /\ futs["summary"].st = "failed"
    /\ futs["summary"].calls = 1
    /\ futs["title"].st = "dropped"
    /\ futs["prefix"].st = "dropped"
    /\ ret.returned
    /\ ret.err = LlmError

\* C17: the stages follow each other and a failure ends the call: after a
\* composer failure nothing is assembled, no translation is requested and no
\* prefix is rendered; a translation is requested only with the three composer
\* results and the assembled message at hand; a prefix is rendered only after
\* the translation has returned a completion, and never after it failed.
C17_FailFast ==
    /\ (\E k \in Subs : futs[k].st = "failed") =>
          /\ message0 = <<>>
          /\ lines = <<>>
          /\ message1 = <<>>
          /\ translation = Unpolled
          /\ formated_prefix = None
    /\ translation.st # "unpolled" =>
          /\ \A k \in Subs : futs[k].st = "ready"
          /\ message0 # <<>>
          /\ lines # <<>>
          /\ message1 = Join(lines, <<NL>>)
    /\ translation.st \in {"awaiting", "failed"} => formated_prefix = None
    /\ formated_prefix.some => translation.st = "ready" /\ pc = "done"
    /\ (ret.returned /\ ~ret.ok) => formated_prefix = None

\* C17 witness: the translation request got an error in a call whose prefix
\* chore would have rendered, and no prefix was rendered.
C17_Witness ==
    /\ translation.st = "failed"
    /\ translation.calls = 1
    /\ futs["prefix"].res.val = <<"c","h","o","r","e">>
    /\ self.output_conventional_commit_prefix_format = "[{{ prefix }}] "
    /\ formated_prefix = None
    /\ ret.returned

\* a composer failure in a call that would have translated
C17_ComposerFailureReached ==
    /\ futs["title"].st = "failed"
    /\ self.output_lang # "En"
    /\ ~Fails(self, "prompt_translation")
    /\ translation = Unpolled
    /\ ret.returned

\* the file names of the input are pairwise distinct
DistinctNames == \A i \in DOMAIN file_diffs : file_diffs[i].file_name.some => UniqueName(i)
\* the summarized tasks joined so far
JoinedTasks == {i \in DOMAIN set : set[i].st = "joined" /\ Summarized(i)}

\* C18: with pairwise distinct file names, whichever tasks have been joined so
\* far and in whatever order, summary_for_file maps the file name of each
\* joined summarized task to the text its own request was answered with, so
\* that after the loop the map is decided by the fragments and their answers.
C18_OrderIndependent ==
    DistinctNames =>
        /\ DOMAIN summary_for_file =
              {file_diffs[i].file_name.val : i \in JoinedTasks}
        /\ \A i \in JoinedTasks :
              /\ file_diffs[i].file_name.val \in DOMAIN summary_for_file
              /\ summary_for_file[file_diffs[i].file_name.val] = Returned(i)

\* C18 witness: the task spawned second was answered and joined while the
\* task spawned first still waits for its answer.
C18_Witness ==
    /\ pc = "joining"
    /\ Len(file_diffs) = 2
    /\ DistinctNames
    /\ set[1].st = "running"
    /\ set[2].st = "joined"
    /\ set[2].fut.res = Ok(<<"-","X">>)
    /\ summary_for_file = (file_diffs[2].file_name.val :> <<"-","X">>)

\* the other order: the task spawned first is joined first
C18_SpawnOrderReached ==
    /\ pc = "joining"
    /\ Len(file_diffs) = 2
    /\ DistinctNames
    /\ set[2].st = "running"
    /\ set[1].st = "joined"
    /\ set[1].fut.res = Ok(<<"-","X">>)

\* the summarized tasks whose fragment carries the file name n
TasksNamed(n) == {i \in DOMAIN set : Summarized(i) /\ file_diffs[i].file_name.val = n}

\* every summarized fragment is summarized on its own, and a file name has one
\* entry, holding the text of one of the tasks of that name
OneEntryPerName ==
    Joined =>
        \A n \in KeptNames :
            /\ \A i \in TasksNamed(n) :
                  Renders("prompt_file_diff") => set[i].fut.calls = 1
            /\ n \in DOMAIN summary_for_file
            /\ \E i \in TasksNamed(n) : summary_for_file[n] = Returned(i)

\* the join of a task that returned (file_name, summary) leaves that summary
\* under that name, whatever was there, and the other entries as they were
JoinOverwrites ==
    \A i \in DOMAIN set :
        (i \in DOMAIN set' /\ set[i].st = "finished" /\ set'[i].st = "joined"
           /\ set[i].out.some) =>
            LET n == set[i].out.val[1]
            IN /\ DOMAIN summary_for_file' = DOMAIN summary_for_file \cup {n}
               /\ summary_for_file'[n] = Returned(i)
               /\ \A x \in DOMAIN summary_for_file \ {n} :
                     summary_for_file'[x] = summary_for_file[x]

\* C20: fragments of the same file name are each summarized with a request of
\* their own, the name has a single entry, and each join overwrites it, so
\* that it holds the summary of the task of that name joined last.
C20_LastJoinedWins == []OneEntryPerName /\ [][JoinOverwrites]_vars

\* C20 witness: two fragments lib.rs, the first answered with "-X" and the
\* second with an error; both were requested, and the entry is "-X": the task
\* spawned first was joined last.
C20_Witness ==
    /\ Joined
    /\ Len(file_diffs) = 2
    /\ \A i \in DOMAIN set :
          file_diffs[i].file_name = Some(lib_rs) /\ set[i].fut.calls = 1
    /\ set[1].fut.res = Ok(<<"-","X">>)
    /\ ~set[2].fut.res.ok
    /\ summary_for_file = (lib_rs :> <<"-","X">>)

\* the same fragments and answers with the tasks joined in the other order:
\* the entry is ""
C20_OtherOrderReached ==
    /\ Joined
    /\ Len(file_diffs) = 2
    /\ \A i \in DOMAIN set :
          file_diffs[i].file_name = Some(lib_rs) /\ set[i].fut.calls = 1
    /\ set[1].fut.res = Ok(<<"-","X">>)
    /\ ~set[2].fut.res.ok
    /\ summary_for_file = (lib_rs :> <<>>)

(***************************************************************************)
(* Progress: the runtime runs the spawned tasks and polls the call when it *)
(* is woken, and the LlmClient answers the requests: while a step of a     *)
(* call that has started is possible, some step is taken.  This asks less  *)
(* than fairness to each task and each request separately.                 *)
(***************************************************************************)
Running ==
    \/ \E i \in 1..(MaxFiles + 1) : TaskRun(i)
    \/ \E i \in 1..(MaxFiles + 1) : TaskCompletion(i)
    \/ \E i \in 1..(MaxFiles + 1) : JoinNext(i)
    \/ TryJoinPoll
    \/ TranslateCompletion

Fairness == WF_vars(Running)

SpecLive == Init /\ [][Next]_vars /\ Fairness

\* C19: once get_commit_message has been called it eventually returns, with a
\* message or with an error, provided every task is run and every request
\* of the LlmClient is answered.
C19_Termination == (pc # "idle") ~> ret.returned

\* C19 witness: a call that went through the join of two summarized tasks,
\* the three composer requests and the translation request has returned.
C19_Witness ==
    /\ ret.returned
    /\ Len(file_diffs) = 2
    /\ \A i \in DOMAIN set : set[i].st = "joined" /\ set[i].fut.calls = 1
    /\ \A k \in Subs : futs[k].st = "ready" /\ futs[k].calls = 1
    /\ translation.st = "ready"
    /\ translation.calls = 1

====
